---------------------------- MODULE Spec2Model ----------------------------
(***************************************************************************)
(* The metrics-instrumented reverse proxy of prometheus_exporter.py:       *)
(* the /invocations handler, the /health probe and the metric registry    *)
(* they share.                                                             *)
(*                                                                         *)
(* invocations is a coroutine (async def) run by the server's event loop;  *)
(* its only suspension point is `await request.body()`.  client is a       *)
(* synchronous httpx.Client, so client.post does not yield: the event      *)
(* loop thread stays inside the call until the upstream answers or the     *)
(* call raises.  health is a plain function, which the framework runs in   *)
(* a worker thread beside the event loop; so is metrics.                    *)
(*                                                                         *)
(* The /predict proxy of 3.prometheus_exporter.py is a second program      *)
(* with a registry of its own: Spec is the first proxy, SpecPredict the    *)
(* second.                                                                 *)
(*                                                                         *)
(* Durations are in milliseconds (LATENCY_BUCKETS is in seconds in the     *)
(* source).  Bodies are strings of one-byte characters.  In a header       *)
(* value, a character outside Latin-1 is written "U+20AC".                 *)
(***************************************************************************)
EXTENDS Integers, Sequences, FiniteSets, TLC

(* ------------------------------ bounds -------------------------------- *)

\* Number of requests each proxy handles.
NumReqs == 2

Reqs == 1..NumReqs

(* --------------------------- configuration ---------------------------- *)

MLFLOW_SCORING_URL == "http://127.0.0.1:5001/invocations"
MODEL_NAME == "creditscoring"
MODEL_VERSION == "e62a3c7b79ff4917b875b53f82e4665e"

\* Upper bounds of the latency histogram, in milliseconds.
LATENCY_BUCKETS == <<10, 25, 50, 100, 250, 500, 1000, 2500, 5000, 10000>>

\* Upper bounds of the payload-size histogram, in bytes.
PAYLOAD_BUCKETS ==
    <<100, 500, 1000, 5000, 10000, 50000, 100000, 500000, 1000000>>

\* The label values every gauge and histogram child is taken with.
ModelLabels == <<MODEL_NAME, MODEL_VERSION>>

(* ------------------------------ strings ------------------------------- *)

Digit(d) ==
    CASE d = 0 -> "0" [] d = 1 -> "1" [] d = 2 -> "2" [] d = 3 -> "3"
      [] d = 4 -> "4" [] d = 5 -> "5" [] d = 6 -> "6" [] d = 7 -> "7"
      [] d = 8 -> "8" [] d = 9 -> "9"

RECURSIVE str(_)
\* str(n) of a non-negative int: its decimal digits.
str(n) == IF n < 10 THEN Digit(n) ELSE str(n \div 10) \o Digit(n % 10)

\* s.startswith(p)
StartsWith(s, p) == Len(s) >= Len(p) /\ SubSeq(s, 1, Len(p)) = p

\* p in s
Contains(s, p) ==
    \E i \in 1..(Len(s) - Len(p) + 1) : SubSeq(s, i, i + Len(p) - 1) = p

\* s.encode("latin-1") succeeds: s holds no character beyond U+00FF.
Latin1Encodable(s) == ~ Contains(s, "U+20AC")

RECURSIVE Repeat(_, _)
\* s * n
Repeat(s, n) == IF n = 0 THEN "" ELSE s \o Repeat(s, n - 1)

(* ------------------------------ headers ------------------------------- *)

NoHeaders == [k \in {} |-> ""]

\* headers.get(key, default)
HeaderGet(headers, key, default) ==
    IF key \in DOMAIN headers THEN headers[key] ELSE default

(* --------------------------- metric registry -------------------------- *)

\* A metric with labels has no child until .labels(...) is first called.
NoChildren == [l \in {} |-> 0]

\* The value of a counter or gauge child; 0 when it does not exist yet.
Value(metric, labels) ==
    IF labels \in DOMAIN metric THEN metric[labels] ELSE 0

\* metric.labels(*labels): the child, created at zero on first use.
WithChild(metric, labels, zero) ==
    IF labels \in DOMAIN metric THEN metric ELSE metric @@ (labels :> zero)

\* Inc as a lost update: the child is written without its current value
\* being read.
IncOverwrite(metric, labels) ==
    [WithChild(metric, labels, 0) EXCEPT ![labels] = 1]

\* Counter.labels(...).inc() and Gauge.labels(...).inc()
Inc(metric, labels) ==
    [WithChild(metric, labels, 0) EXCEPT ![labels] = @ + 1]

\* Gauge.labels(...).dec()
Dec(metric, labels) ==
    [WithChild(metric, labels, 0) EXCEPT ![labels] = @ - 1]

\* Gauge.labels(...).set(v)
Set(metric, labels, v) ==
    [WithChild(metric, labels, 0) EXCEPT ![labels] = v]

\* The index of the first bucket whose upper bound is >= amount; the last
\* bucket (+Inf) when there is none.
BucketOf(bounds, amount) ==
    IF \E i \in 1..Len(bounds) : amount <= bounds[i]
    THEN CHOOSE i \in 1..Len(bounds) :
             /\ amount <= bounds[i]
             /\ \A j \in 1..(i - 1) : amount > bounds[j]
    ELSE Len(bounds) + 1

\* A histogram child: one counter per bucket (the last is +Inf) and the sum.
EmptyHistogram(bounds) ==
    [buckets |-> [i \in 1..(Len(bounds) + 1) |-> 0], sum |-> 0]

\* Observe on buckets that are stored cumulatively: the observation is
\* added to its bucket and to every higher one.
ObserveCumulative(metric, labels, bounds, amount) ==
    [WithChild(metric, labels, EmptyHistogram(bounds)) EXCEPT ![labels] =
        [buckets |-> [i \in DOMAIN @.buckets |->
                         IF i >= BucketOf(bounds, amount)
                         THEN @.buckets[i] + 1 ELSE @.buckets[i]],
         sum     |-> @.sum + amount]]

\* Histogram.labels(...).observe(amount)
Observe(metric, labels, bounds, amount) ==
    [WithChild(metric, labels, EmptyHistogram(bounds)) EXCEPT ![labels] =
        [buckets |-> [@.buckets EXCEPT ![BucketOf(bounds, amount)] = @ + 1],
         sum     |-> @.sum + amount]]

RECURSIVE SumSeq(_)
SumSeq(s) == IF s = <<>> THEN 0 ELSE Head(s) + SumSeq(Tail(s))

\* Number of observations of a histogram child (its _count sample).
ObservationCount(metric, labels) ==
    IF labels \in DOMAIN metric THEN SumSeq(metric[labels].buckets) ELSE 0

RECURSIVE SumOver(_, _)
\* The sum of a counter over the children in ls.
SumOver(metric, ls) ==
    IF ls = {} THEN 0
    ELSE LET l == CHOOSE x \in ls : TRUE
         IN  metric[l] + SumOver(metric, ls \ {l})

Total(metric) == SumOver(metric, DOMAIN metric)

(* ------------------------------ inputs -------------------------------- *)

\* Request bodies the callers send: a short one and one of 150 bytes.
RequestBodies == {"{\"inputs\": [[1]]}", Repeat("0123456789", 15)}

\* Request headers the callers send: without and with a Content-Type.
RequestHeaders == {NoHeaders, ("content-type" :> "text/csv")}

\* Status codes the upstream answers with.
UpstreamStatusCodes == {200, 300, 500}

\* Response headers of the upstream: no Content-Type, one relayed as it
\* is, and one that holds a character outside Latin-1.
UpstreamHeaders ==
    {NoHeaders,
     ("content-type" :> "application/xml"),
     ("content-type" :> "application/U+20AC")}

UpstreamBodies == {"{\"prediction\": 1}"}

\* What client.post and client.get raise: httpx.ConnectError (connection
\* refused), httpx.ConnectTimeout (connect phase not completed in 5 s),
\* httpx.ReadTimeout (no response in 30 s), httpx.RemoteProtocolError.
TransportErrors ==
    {"ConnectError", "ConnectTimeout", "ReadTimeout", "RemoteProtocolError"}

\* httpx.Timeout(30.0, connect=5.0), in milliseconds.
HTTP_TIMEOUT == 30000
CONNECT_TIMEOUT == 5000

\* The time client.post takes, in milliseconds: a timeout is raised once
\* its limit has passed, a refused connection and a response come sooner.
Elapsed(outcome) ==
    IF outcome.kind = "response" THEN 20
    ELSE CASE outcome.exc = "ConnectError" -> 2
           [] outcome.exc = "ConnectTimeout" -> CONNECT_TIMEOUT + 1
           [] outcome.exc = "ReadTimeout" -> HTTP_TIMEOUT + 1
           [] OTHER -> 20

(* ----------------------------- exceptions ----------------------------- *)

\* The base class of each exception class.
BaseClass ==
    [ConnectError        |-> "NetworkError",
     NetworkError        |-> "TransportError",
     ConnectTimeout      |-> "TimeoutException",
     ReadTimeout         |-> "TimeoutException",
     TimeoutException    |-> "TransportError",
     RemoteProtocolError |-> "ProtocolError",
     ProtocolError       |-> "TransportError",
     TransportError      |-> "RequestError",
     RequestError        |-> "HTTPError",
     HTTPError           |-> "Exception",
     UnicodeEncodeError  |-> "UnicodeError",
     UnicodeError        |-> "ValueError",
     ValueError          |-> "Exception",
     ClientDisconnect    |-> "Exception",
     Exception           |-> "BaseException",
     CancelledError      |-> "BaseException"]

RECURSIVE IsInstance(_, _)
\* isinstance(exc, cls): what `except cls:` catches.
IsInstance(exc, cls) ==
    \/ exc = cls
    \/ exc \in DOMAIN BaseClass /\ IsInstance(BaseClass[exc], cls)

(* ----------------------------- responses ------------------------------ *)

NoResponse == [kind |-> "none"]

\* The Content-Type header a framework Response sends for media_type:
\* "; charset=utf-8" is appended to a text/ type that names no charset.
ContentTypeHeader(media_type) ==
    IF StartsWith(media_type, "text/") /\ ~ Contains(media_type, "charset=")
    THEN media_type \o "; charset=utf-8"
    ELSE media_type

\* Response(...) raises UnicodeEncodeError when the Content-Type header
\* cannot be encoded as Latin-1.
ResponseRaises(media_type) == ~ Latin1Encodable(ContentTypeHeader(media_type))

\* Response(content=..., status_code=..., media_type=...): what the caller
\* receives.  Of the headers only Content-Type is modelled.
Response(content, status_code, media_type) ==
    [kind        |-> "response",
     status_code |-> status_code,
     body        |-> content,
     headers     |-> ("content-type" :> ContentTypeHeader(media_type))]

\* PlainTextResponse(text, status_code=...)
PlainTextResponse(text, status_code) ==
    Response(text, status_code, "text/plain")

\* 200 <= code < 300
_is_2xx(code) == 200 <= code /\ code < 300

(* ------------------------------- state -------------------------------- *)

VARIABLES
    pc,            \* where each /invocations handler is
    req,           \* the body and headers a running handler has read
    dispatched,    \* the upstream call a handler is inside: url, content, headers
    up,            \* what client.post returned or raised for each request
    resp,          \* the response each handler returned to its caller
    REQ_TOTAL,
    REQ_ERRORS,
    REQ_LATENCY,
    INPROGRESS,
    UPSTREAM_UP,
    PAYLOAD_BYTES,
    hresp,         \* what the last /health probe returned
    hup,           \* what client.get returned or raised in the last probe
    attempts       \* how many times each handler has called client.post

\* The state of the /predict proxy of 3.prometheus_exporter.py.
VARIABLES
    ppc,           \* where each /predict handler is
    pup,           \* what requests.post returned or raised for each request
    presp,         \* the response each /predict handler returned
    HTTP_REQUESTS_TOTAL,
    HTTP_REQUEST_ERRORS_TOTAL,
    REQUEST_LATENCY_SECONDS,
    MODEL_PREDICTIONS_TOTAL,
    scraping,      \* a worker thread is inside metrics()
    scraped        \* what the last GET /metrics of the /predict proxy read

predictVars == <<ppc, pup, presp, HTTP_REQUESTS_TOTAL,
                 HTTP_REQUEST_ERRORS_TOTAL, REQUEST_LATENCY_SECONDS,
                 MODEL_PREDICTIONS_TOTAL, scraping, scraped>>

invocationsVars ==
    <<pc, req, dispatched, up, resp, REQ_TOTAL, REQ_ERRORS, REQ_LATENCY,
      INPROGRESS, UPSTREAM_UP, PAYLOAD_BYTES, hresp, hup, attempts>>

vars == <<invocationsVars, predictVars>>

metrics == <<REQ_TOTAL, REQ_ERRORS, REQ_LATENCY, INPROGRESS, UPSTREAM_UP,
             PAYLOAD_BYTES>>

NoRequest == [kind |-> "none"]
NoCall == [kind |-> "none"]
NoOutcome == [kind |-> "none"]

Init ==
    /\ pc = [r \in Reqs |-> "Idle"]
    /\ req = [r \in Reqs |-> NoRequest]
    /\ dispatched = [r \in Reqs |-> NoCall]
    /\ up = [r \in Reqs |-> NoOutcome]
    /\ resp = [r \in Reqs |-> NoResponse]
    /\ REQ_TOTAL = NoChildren
    /\ REQ_ERRORS = NoChildren
    /\ REQ_LATENCY = NoChildren
    /\ INPROGRESS = NoChildren
    /\ UPSTREAM_UP = NoChildren
    /\ PAYLOAD_BYTES = NoChildren
    /\ hresp = NoResponse
    /\ hup = NoOutcome
    /\ attempts = [r \in Reqs |-> 0]
    /\ ppc = [r \in Reqs |-> "Idle"]
    /\ pup = [r \in Reqs |-> NoOutcome]
    /\ presp = [r \in Reqs |-> NoResponse]
    /\ HTTP_REQUESTS_TOTAL = NoChildren
    /\ HTTP_REQUEST_ERRORS_TOTAL = NoChildren
    /\ REQUEST_LATENCY_SECONDS = NoChildren
    /\ MODEL_PREDICTIONS_TOTAL = NoChildren
    /\ scraping = FALSE
    /\ scraped = [errors |-> 0, total |-> 0]

\* The event loop thread is not inside a handler's blocking client.post.
EventLoopFree == \A r \in Reqs : pc[r] # "Dispatched"

(* ----------------------- the /invocations handler --------------------- *)

\* The metrics the try statement of invocations updates.
Registry ==
    [REQ_TOTAL   |-> REQ_TOTAL,
     REQ_ERRORS  |-> REQ_ERRORS,
     REQ_LATENCY |-> REQ_LATENCY,
     UPSTREAM_UP |-> UPSTREAM_UP]

\* The try body after client.post has returned r: the latency observation,
\* the total-requests increment and, for a non-2xx status, the error
\* increment.
OnUpstreamResponse(reg, r, latency) ==
    [reg EXCEPT
        !.REQ_LATENCY = Observe(@, ModelLabels, LATENCY_BUCKETS, latency),
        !.REQ_TOTAL   = Inc(@, <<MODEL_NAME, MODEL_VERSION, str(r.status_code)>>),
        !.REQ_ERRORS  = IF ~ _is_2xx(r.status_code)
                        THEN Inc(@, <<MODEL_NAME, MODEL_VERSION, "upstream_non_2xx">>)
                        ELSE @]

\* The media_type the relayed response is built with.
RelayMediaType(r) == HeaderGet(r.headers, "content-type", "application/json")

\* The response the try body returns for the upstream response r.
RelayResponse(r) == Response(r.content, r.status_code, RelayMediaType(r))

\* except httpx.ConnectError:
ExceptConnectError(reg, latency) ==
    [kind     |-> "return",
     reg      |-> [reg EXCEPT
                     !.REQ_LATENCY = Observe(@, ModelLabels, LATENCY_BUCKETS, latency),
                     !.REQ_TOTAL   = Inc(@, <<MODEL_NAME, MODEL_VERSION, "502">>),
                     !.REQ_ERRORS  = Inc(@, <<MODEL_NAME, MODEL_VERSION, "connect_error">>),
                     !.UPSTREAM_UP = Set(@, ModelLabels, 0)],
     response |-> PlainTextResponse("Upstream MLflow server unreachable", 502)]

\* except Exception as e:
ExceptException(reg, exc, latency) ==
    [kind     |-> "return",
     reg      |-> [reg EXCEPT
                     !.REQ_LATENCY = Observe(@, ModelLabels, LATENCY_BUCKETS, latency),
                     !.REQ_TOTAL   = Inc(@, <<MODEL_NAME, MODEL_VERSION, "500">>),
                     !.REQ_ERRORS  = Inc(@, <<MODEL_NAME, MODEL_VERSION, "unexpected_exception">>)],
     response |-> PlainTextResponse("Internal proxy error: " \o exc, 500)]

\* HandleException with the last clause narrowed to
\* `except httpx.TimeoutException`.
HandleExceptionTimeoutsOnly(reg, exc, latency) ==
    IF IsInstance(exc, "ConnectError") THEN ExceptConnectError(reg, latency)
    ELSE IF IsInstance(exc, "TimeoutException")
    THEN ExceptException(reg, exc, latency)
    ELSE [kind |-> "raise", reg |-> reg, response |-> NoResponse]

\* The except clauses of the try statement, in their order, for an
\* exception of class exc raised in the try body; an exception none of
\* them catches leaves the handler.
HandleException(reg, exc, latency) ==
    IF IsInstance(exc, "ConnectError") THEN ExceptConnectError(reg, latency)
    ELSE IF IsInstance(exc, "Exception") THEN ExceptException(reg, exc, latency)
    ELSE [kind |-> "raise", reg |-> reg, response |-> NoResponse]

\* The try statement for what client.post did (outcome).  latency is
\* perf_counter() - start after the call; the clock has moved on when the
\* except clause reads it after a failure to build the response.
Try(reg, outcome, latency) ==
    IF outcome.kind = "response"
    THEN LET after == OnUpstreamResponse(reg, outcome, latency)
         IN  IF ResponseRaises(RelayMediaType(outcome))
             THEN HandleException(after, "UnicodeEncodeError", latency + 1)
             ELSE [kind |-> "return", reg |-> after,
                   response |-> RelayResponse(outcome)]
    ELSE HandleException(reg, outcome.exc, latency)

\* finally:
Finally(inprogress) == Dec(inprogress, ModelLabels)

\* Headers of the upstream call that ignore what the caller declared.
DispatchHeadersJsonOnly(headers) == ("Content-Type" :> "application/json")

\* The headers of the upstream call.
DispatchHeaders(headers) ==
    ("Content-Type" :> HeaderGet(headers, "content-type", "application/json"))

\* A dispatch that is sent again after the first send.
PostTwice(calls, r) == [calls EXCEPT ![r] = @ + 2]

\* client.post(...) by handler r: one call, which the client does not
\* repeat (its transport is built with no retries).
Post(calls, r) == [calls EXCEPT ![r] = @ + 1]

\* A request arrives: the handler starts, increments the in-progress gauge
\* and suspends in `await request.body()`.
Receive(r) ==
    /\ pc[r] = "Idle"
    /\ EventLoopFree
    /\ INPROGRESS' = Inc(INPROGRESS, ModelLabels)
    /\ pc' = [pc EXCEPT ![r] = "Received"]
    /\ UNCHANGED <<req, dispatched, up, resp, REQ_TOTAL, REQ_ERRORS,
                   REQ_LATENCY, UPSTREAM_UP, PAYLOAD_BYTES, hresp, hup,
                   attempts, predictVars>>

\* The body has arrived: the handler observes its size and enters
\* client.post, which holds the event loop thread.
BodyRead(r) ==
    /\ pc[r] = "Received"
    /\ EventLoopFree
    /\ \E body \in RequestBodies, headers \in RequestHeaders :
          /\ req' = [req EXCEPT ![r] =
                        [kind |-> "request", body |-> body, headers |-> headers]]
          /\ PAYLOAD_BYTES' =
                Observe(PAYLOAD_BYTES, ModelLabels, PAYLOAD_BUCKETS, Len(body))
          /\ dispatched' = [dispatched EXCEPT ![r] =
                        [kind    |-> "post",
                         url     |-> MLFLOW_SCORING_URL,
                         content |-> body,
                         headers |-> DispatchHeaders(headers)]]
    /\ attempts' = Post(attempts, r)
    /\ pc' = [pc EXCEPT ![r] = "Dispatched"]
    /\ UNCHANGED <<up, resp, REQ_TOTAL, REQ_ERRORS, REQ_LATENCY, INPROGRESS,
                   UPSTREAM_UP, hresp, hup, predictVars>>

\* `await request.body()` raises: the caller disconnected (ClientDisconnect)
\* or the task was cancelled (CancelledError).  The await is outside the
\* try statement, so the exception leaves the handler at once.
BodyReadRaises(r) ==
    /\ pc[r] = "Received"
    /\ EventLoopFree
    /\ pc' = [pc EXCEPT ![r] = "Faulted"]
    /\ UNCHANGED <<req, dispatched, up, resp, metrics, hresp, hup, attempts,
                   predictVars>>

\* client.post has returned or raised (outcome): the rest of the handler
\* runs without suspending, the finally clause last.
Complete(r, outcome) ==
    /\ pc[r] = "Dispatched"
    /\ \E result \in {Try(Registry, outcome, Elapsed(outcome))} :
          /\ REQ_TOTAL' = result.reg.REQ_TOTAL
          /\ REQ_ERRORS' = result.reg.REQ_ERRORS
          /\ REQ_LATENCY' = result.reg.REQ_LATENCY
          /\ UPSTREAM_UP' = result.reg.UPSTREAM_UP
          /\ resp' = [resp EXCEPT ![r] = result.response]
          /\ pc' = [pc EXCEPT ![r] =
                       IF result.kind = "return" THEN "Completed"
                       ELSE "Faulted"]
    /\ INPROGRESS' = Finally(INPROGRESS)
    /\ up' = [up EXCEPT ![r] = outcome]
    /\ req' = [req EXCEPT ![r] = NoRequest]
    /\ dispatched' = [dispatched EXCEPT ![r] = NoCall]
    /\ UNCHANGED <<PAYLOAD_BYTES, hresp, hup, attempts, predictVars>>

\* The upstream answers the forwarded request.
UpstreamResponds(r) ==
    \E code \in UpstreamStatusCodes, content \in UpstreamBodies,
       headers \in UpstreamHeaders :
        Complete(r, [kind |-> "response", status_code |-> code,
                     content |-> content, headers |-> headers])

\* The upstream call fails.
UpstreamFails(r) ==
    \E exc \in TransportErrors : Complete(r, [kind |-> "raise", exc |-> exc])

(* ------------------------- the /health handler ------------------------ *)

\* Status codes the upstream answers a GET of its root with.
HealthStatusCodes == {200, 404}

\* What client.get raises in a probe: httpx.ConnectError (no connection)
\* and httpx.ReadTimeout (connected, no response in 30 s).
HealthErrors == {"ConnectError", "ReadTimeout"}

\* What client.get does in a probe: a response or an exception.
HealthOutcomes ==
    [kind : {"response"}, status_code : HealthStatusCodes]
        \cup [kind : {"raise"}, exc : HealthErrors]

\* The try statement of health for what client.get did (outcome): the
\* upstream-up gauge after it and the dict returned.  An exception that
\* `except Exception` does not catch leaves the handler.
HealthTry(gauge, outcome) ==
    IF outcome.kind = "response"
    THEN [gauge    |-> Set(gauge, ModelLabels, 1),
          response |-> [kind |-> "json", status |-> "ok",
                        upstream |-> "reachable",
                        code |-> outcome.status_code]]
    ELSE IF IsInstance(outcome.exc, "Exception")
    THEN [gauge    |-> Set(gauge, ModelLabels, 0),
          response |-> [kind |-> "json", status |-> "degraded",
                        upstream |-> "unreachable"]]
    ELSE [gauge |-> gauge, response |-> NoResponse]

\* A probe that is also counted as a request: it increments the
\* total-requests counter under its status code.
HealthCountsRequest ==
    \E o \in HealthOutcomes :
        \E result \in {HealthTry(UPSTREAM_UP, o)} :
            /\ UPSTREAM_UP' = result.gauge
            /\ hresp' = result.response
            /\ hup' = o
            /\ REQ_TOTAL' = Inc(REQ_TOTAL, <<MODEL_NAME, MODEL_VERSION, "200">>)
            /\ UNCHANGED <<pc, req, dispatched, up, resp, REQ_ERRORS,
                           REQ_LATENCY, INPROGRESS, PAYLOAD_BYTES, attempts,
                           predictVars>>

\* A /health probe: the body of health, run by a worker thread beside the
\* event loop (which accepted the probe at a moment it was free).
Health ==
    \E o \in HealthOutcomes :
        \E result \in {HealthTry(UPSTREAM_UP, o)} :
            /\ UPSTREAM_UP' = result.gauge
            /\ hresp' = result.response
            /\ hup' = o
            /\ UNCHANGED <<pc, req, dispatched, up, resp, REQ_TOTAL,
                           REQ_ERRORS, REQ_LATENCY, INPROGRESS, PAYLOAD_BYTES,
                           attempts, predictVars>>

(* ------------------------ the /metrics handler ------------------------ *)

\* prometheus_client.CONTENT_TYPE_LATEST
CONTENT_TYPE_LATEST == "text/plain; version=0.0.4; charset=utf-8"

\* The count of observations that fell in bucket i or a lower one: the
\* value of the _bucket sample of bucket i, and for the last bucket (+Inf)
\* also the _count sample.
Cumulative(buckets, i) == SumSeq(SubSeq(buckets, 1, i))

\* The le label of bucket i.
Le(bounds, i) == IF i <= Len(bounds) THEN str(bounds[i]) ELSE "+Inf"

\* The samples of a counter or gauge: one per child.
ValueSamples(name, metric) ==
    {<<name, l, metric[l]>> : l \in DOMAIN metric}

\* The samples of a histogram: per child one cumulative _bucket sample per
\* bucket, the _count and the _sum.
HistogramSamples(name, metric, bounds) ==
    UNION {{<<name \o "_bucket", l \o <<Le(bounds, i)>>,
              Cumulative(metric[l].buckets, i)>> :
                i \in 1..(Len(bounds) + 1)}
           \cup {<<name \o "_count", l,
                    Cumulative(metric[l].buckets, Len(bounds) + 1)>>,
                  <<name \o "_sum", l, metric[l].sum>>} :
           l \in DOMAIN metric}

\* generate_latest(): the samples of every metric of the registry.
generate_latest ==
    ValueSamples("inference_requests_total", REQ_TOTAL)
    \cup ValueSamples("inference_request_errors_total", REQ_ERRORS)
    \cup HistogramSamples("inference_request_latency_seconds", REQ_LATENCY,
                          LATENCY_BUCKETS)
    \cup ValueSamples("inference_requests_inprogress", INPROGRESS)
    \cup ValueSamples("mlflow_upstream_up", UPSTREAM_UP)
    \cup HistogramSamples("inference_payload_bytes", PAYLOAD_BYTES,
                          PAYLOAD_BUCKETS)

\* A GET /metrics.  metrics is a plain function: the event loop has to
\* accept the request and hand it to a worker thread, which it cannot do
\* while it is inside client.post.  The handler reads the registry and
\* writes nothing.
Metrics ==
    /\ EventLoopFree
    /\ Response(generate_latest, 200, CONTENT_TYPE_LATEST).kind = "response"
    /\ UNCHANGED vars

(* ----------------- the /predict proxy (3.prometheus_exporter.py) ------ *)

\* predict is a coroutine as invocations is, and requests.post is
\* synchronous as client.post is: from `await request.json()` to its
\* return the handler holds the event loop thread.  metrics is a plain
\* function: once the event loop has handed a GET /metrics to a worker
\* thread, that thread reads the registry at any moment, also between two
\* statements of a handler.

\* endpoint and method, the first two label values of every child.
PredictLabels(last) == <<"/predict", "POST", last>>

\* prometheus_client's default buckets, in milliseconds.
DEFAULT_BUCKETS ==
    <<5, 10, 25, 50, 75, 100, 250, 500, 750, 1000, 2500, 5000, 7500, 10000>>

\* The texts that are JSON documents, among those the model sends.
JsonDocuments == {"{\"inputs\": [[1]]}", "{\"predictions\": [1]}"}

\* json.loads(text) succeeds.
Parses(text) == text \in JsonDocuments

\* Bodies the callers of /predict send: a JSON document and one that is not.
PredictBodies == {"{\"inputs\": [[1]]}", "inputs=1"}

\* Status codes and bodies the upstream answers /predict's dispatch with.
PredictStatusCodes == {200, 204, 404}
PredictUpstreamTexts == {"{\"predictions\": [1]}", "oops"}

\* What requests.post raises: requests.exceptions.ConnectionError,
\* ReadTimeout and ConnectTimeout.
RequestsErrors == {"ConnectionError", "ReadTimeout", "ConnectTimeout"}

\* requests.post(..., timeout=30), in milliseconds.
REQUESTS_TIMEOUT == 30000

\* The time requests.post takes, in milliseconds.
PredictElapsed(outcome) ==
    IF outcome.kind = "response" THEN 20
    ELSE IF outcome.exc = "ConnectionError" THEN 2
    ELSE REQUESTS_TIMEOUT + 1

\* The base classes of each exception class of requests.
RequestsBases ==
    [ConnectionError  |-> {"RequestException"},
     Timeout          |-> {"RequestException"},
     ConnectTimeout   |-> {"ConnectionError", "Timeout"},
     ReadTimeout      |-> {"Timeout"},
     RequestException |-> {"OSError"},
     OSError          |-> {"Exception"},
     Exception        |-> {"BaseException"}]

RECURSIVE RequestsIsInstance(_, _)
\* isinstance(exc, cls) for the exceptions of requests.
RequestsIsInstance(exc, cls) ==
    \/ exc = cls
    \/ /\ exc \in DOMAIN RequestsBases
       /\ \E b \in RequestsBases[exc] : RequestsIsInstance(b, cls)

\* resp.ok: raise_for_status() would not raise, the status is below 400.
Ok(status_code) == status_code < 400

\* JSONResponse(status_code=..., content=...)
JSONResponse(status_code, content) ==
    [kind        |-> "response",
     status_code |-> status_code,
     body        |-> content,
     headers     |-> ("content-type" :> "application/json")]

\* The event loop thread is not inside a /predict handler.
PredictLoopFree == \A r \in Reqs : ppc[r] \in {"Idle", "Received", "Completed"}

\* A request arrives: the handler starts and suspends in
\* `await request.json()`.
PredictReceive(r) ==
    /\ ppc[r] = "Idle"
    /\ PredictLoopFree
    /\ ppc' = [ppc EXCEPT ![r] = "Received"]
    /\ UNCHANGED <<pup, presp, HTTP_REQUESTS_TOTAL, HTTP_REQUEST_ERRORS_TOTAL,
                   REQUEST_LATENCY_SECONDS, MODEL_PREDICTIONS_TOTAL, scraping,
                   scraped, invocationsVars>>

\* The body has arrived and is a JSON document: the handler enters
\* requests.post.
PredictJsonRead(r) ==
    /\ ppc[r] = "Received"
    /\ PredictLoopFree
    /\ \E body \in PredictBodies : Parses(body)
    /\ ppc' = [ppc EXCEPT ![r] = "Posting"]
    /\ UNCHANGED <<pup, presp, HTTP_REQUESTS_TOTAL, HTTP_REQUEST_ERRORS_TOTAL,
                   REQUEST_LATENCY_SECONDS, MODEL_PREDICTIONS_TOTAL, scraping,
                   scraped, invocationsVars>>

\* `await request.json()` raises (the body is no JSON document): line 56,
\* the errors increment.
PredictJsonRaises(r) ==
    /\ ppc[r] = "Received"
    /\ PredictLoopFree
    /\ \E body \in PredictBodies : ~ Parses(body)
    /\ HTTP_REQUEST_ERRORS_TOTAL' =
          Inc(HTTP_REQUEST_ERRORS_TOTAL, PredictLabels("invalid_json"))
    /\ ppc' = [ppc EXCEPT ![r] = "InvalidJson"]
    /\ UNCHANGED <<pup, presp, HTTP_REQUESTS_TOTAL, REQUEST_LATENCY_SECONDS,
                   MODEL_PREDICTIONS_TOTAL, scraping, scraped,
                   invocationsVars>>

\* Lines 57-58: the total-requests increment and the 400 response.
PredictInvalidJson(r) ==
    /\ ppc[r] = "InvalidJson"
    /\ HTTP_REQUESTS_TOTAL' = Inc(HTTP_REQUESTS_TOTAL, PredictLabels("400"))
    /\ presp' = [presp EXCEPT ![r] =
                    JSONResponse(400, [status |-> "error",
                                       message |-> "Invalid JSON"])]
    /\ ppc' = [ppc EXCEPT ![r] = "Completed"]
    /\ UNCHANGED <<pup, HTTP_REQUEST_ERRORS_TOTAL, REQUEST_LATENCY_SECONDS,
                   MODEL_PREDICTIONS_TOTAL, scraping, scraped,
                   invocationsVars>>

\* The status_code label of the total-requests increment for what
\* requests.post did: lines 63, 81 and 88.
PredictStatusLabel(outcome) ==
    IF outcome.kind = "response" THEN str(outcome.status_code)
    ELSE IF RequestsIsInstance(outcome.exc, "Timeout") THEN "504"
    ELSE "500"

\* requests.post ends as outcome: the latency observation and the
\* total-requests increment (lines 62-63, 80-81 or 87-88).
PredictPostEnds(r, outcome) ==
    /\ ppc[r] = "Posting"
    /\ REQUEST_LATENCY_SECONDS' =
          Observe(REQUEST_LATENCY_SECONDS, <<"/predict", "POST">>,
                  DEFAULT_BUCKETS, PredictElapsed(outcome))
    /\ HTTP_REQUESTS_TOTAL' =
          Inc(HTTP_REQUESTS_TOTAL, PredictLabels(PredictStatusLabel(outcome)))
    /\ pup' = [pup EXCEPT ![r] = outcome]
    /\ ppc' = [ppc EXCEPT ![r] = "Counted"]
    /\ UNCHANGED <<presp, HTTP_REQUEST_ERRORS_TOTAL, MODEL_PREDICTIONS_TOTAL,
                   scraping, scraped, invocationsVars>>

\* The upstream answers the dispatch of /predict.
PredictUpstreamResponds(r) ==
    \E code \in PredictStatusCodes, text \in PredictUpstreamTexts :
        PredictPostEnds(r, [kind |-> "response", status_code |-> code,
                            text |-> text])

\* The dispatch of /predict fails.
PredictUpstreamFails(r) ==
    \E exc \in RequestsErrors :
        PredictPostEnds(r, [kind |-> "raise", exc |-> exc])

\* What the handler returns for what requests.post did: lines 68-70,
\* 74-77, 84 and 91.
PredictResponse(outcome) ==
    IF outcome.kind = "response"
    THEN IF Ok(outcome.status_code)
         THEN IF Parses(outcome.text)
              THEN JSONResponse(200, [json |-> outcome.text])
              ELSE JSONResponse(200, [result |-> outcome.text])
         ELSE JSONResponse(502, [status |-> "error",
                                 message |-> "Upstream MLflow non-2xx",
                                 upstream_status |-> outcome.status_code,
                                 upstream_body |-> outcome.text])
    ELSE IF RequestsIsInstance(outcome.exc, "Timeout")
         THEN JSONResponse(504, [status |-> "error",
                                 message |-> "Timeout to MLflow invocations"])
         ELSE JSONResponse(500, [status |-> "error", message |-> outcome.exc])

\* The error_type the errors counter is incremented under for what
\* requests.post did (lines 73, 82 and 89); "" when it is not incremented.
PredictErrorType(outcome) ==
    IF outcome.kind = "response"
    THEN IF Ok(outcome.status_code) THEN "" ELSE "mlflow_non_2xx"
    ELSE IF RequestsIsInstance(outcome.exc, "Timeout") THEN "timeout"
    ELSE "exception"

\* The rest of the branch taken: the predictions and errors increments
\* and the return (lines 65-77, 82-84 or 89-91).
PredictAnswer(r) ==
    /\ ppc[r] = "Counted"
    /\ MODEL_PREDICTIONS_TOTAL' =
          Inc(MODEL_PREDICTIONS_TOTAL,
              <<IF PredictErrorType(pup[r]) = "" THEN "success" ELSE "failed">>)
    /\ HTTP_REQUEST_ERRORS_TOTAL' =
          IF PredictErrorType(pup[r]) = "" THEN HTTP_REQUEST_ERRORS_TOTAL
          ELSE Inc(HTTP_REQUEST_ERRORS_TOTAL,
                   PredictLabels(PredictErrorType(pup[r])))
    /\ presp' = [presp EXCEPT ![r] = PredictResponse(pup[r])]
    /\ ppc' = [ppc EXCEPT ![r] = "Completed"]
    /\ UNCHANGED <<pup, HTTP_REQUESTS_TOTAL, REQUEST_LATENCY_SECONDS,
                   scraping, scraped, invocationsVars>>

\* A GET /metrics is accepted by the event loop and handed to a worker
\* thread.
PredictMetricsAccepted ==
    /\ ~ scraping
    /\ PredictLoopFree
    /\ scraping' = TRUE
    /\ UNCHANGED <<ppc, pup, presp, HTTP_REQUESTS_TOTAL,
                   HTTP_REQUEST_ERRORS_TOTAL, REQUEST_LATENCY_SECONDS,
                   MODEL_PREDICTIONS_TOTAL, scraped, invocationsVars>>

\* The worker thread runs generate_latest(): it reads the two counters.
PredictMetrics ==
    /\ scraping
    /\ scraped' = [errors |-> Total(HTTP_REQUEST_ERRORS_TOTAL),
                   total  |-> Total(HTTP_REQUESTS_TOTAL)]
    /\ scraping' = FALSE
    /\ UNCHANGED <<ppc, pup, presp, HTTP_REQUESTS_TOTAL,
                   HTTP_REQUEST_ERRORS_TOTAL, REQUEST_LATENCY_SECONDS,
                   MODEL_PREDICTIONS_TOTAL, invocationsVars>>

(* --------------------------- specification ---------------------------- *)

Next ==
    \/ \E r \in Reqs : Receive(r)
    \/ \E r \in Reqs : BodyRead(r)
    \/ \E r \in Reqs : BodyReadRaises(r)
    \/ \E r \in Reqs : UpstreamResponds(r)
    \/ \E r \in Reqs : UpstreamFails(r)
    \/ Health
    \/ Metrics

Spec == Init /\ [][Next]_vars

NextPredict ==
    \/ \E r \in Reqs : PredictReceive(r)
    \/ \E r \in Reqs : PredictJsonRead(r)
    \/ \E r \in Reqs : PredictJsonRaises(r)
    \/ \E r \in Reqs : PredictInvalidJson(r)
    \/ \E r \in Reqs : PredictUpstreamResponds(r)
    \/ \E r \in Reqs : PredictUpstreamFails(r)
    \/ \E r \in Reqs : PredictAnswer(r)
    \/ PredictMetricsAccepted
    \/ PredictMetrics

\* The /predict proxy.
SpecPredict == Init /\ [][NextPredict]_vars

(* ------------------------------ properties --------------------------- *)

\* The handlers that have started and not yet left.
InFlight == {r \in Reqs : pc[r] \in {"Received", "Dispatched"}}

\* Handler r leaves in this step.
Exits(r) == pc[r] \in {"Received", "Dispatched"} /\ pc'[r] \in {"Completed", "Faulted"}

\* client.post of handler r ends in this step.
DispatchEnds(r) == pc[r] = "Dispatched" /\ pc'[r] # "Dispatched"

TotalLabels(status) == <<MODEL_NAME, MODEL_VERSION, status>>
ErrorLabels(error_type) == <<MODEL_NAME, MODEL_VERSION, error_type>>

\* C1: on every exit path of the handler the in-progress gauge is
\* decremented exactly once, so the gauge always equals the number of
\* handlers that have started and not yet left: it is back at its
\* pre-request value once a request is over.
C1_GaugeNetZero == Value(INPROGRESS, ModelLabels) = Cardinality(InFlight)

\* C2: a request that leaves the handler, on whatever path, has recorded
\* exactly one latency observation and exactly one total-requests
\* increment.
C2_ExactlyOneObservation ==
    [][\A r \in Reqs : Exits(r) =>
          /\ ObservationCount(REQ_LATENCY', ModelLabels)
                = ObservationCount(REQ_LATENCY, ModelLabels) + 1
          /\ Total(REQ_TOTAL') = Total(REQ_TOTAL) + 1]_vars

\* C3: when the upstream returned a response, the caller receives its
\* status code, its body and its Content-Type header (none if it had
\* none), and nothing else.
C3_RelayVerbatim ==
    \A r \in Reqs :
        pc[r] \in {"Completed", "Faulted"} /\ up[r].kind = "response" =>
            /\ resp[r].kind = "response"
            /\ resp[r].status_code = up[r].status_code
            /\ resp[r].body = up[r].content
            /\ resp[r].headers = up[r].headers

\* C4: when no connection to the upstream could be established (refused,
\* or the connect phase not completed), the caller receives 502 with the
\* plain-text unreachable message, total-requests "502" and errors
\* connect_error each grow by 1, and the upstream-up gauge is 0.
C4_ConnectFailure ==
    [][\A r \in Reqs :
          /\ DispatchEnds(r)
          /\ up'[r].kind = "raise"
          /\ up'[r].exc \in {"ConnectError", "ConnectTimeout"}
          =>
          /\ resp'[r] = PlainTextResponse("Upstream MLflow server unreachable", 502)
          /\ Value(REQ_TOTAL', TotalLabels("502"))
                = Value(REQ_TOTAL, TotalLabels("502")) + 1
          /\ Value(REQ_ERRORS', ErrorLabels("connect_error"))
                = Value(REQ_ERRORS, ErrorLabels("connect_error")) + 1
          /\ ModelLabels \in DOMAIN UPSTREAM_UP'
          /\ UPSTREAM_UP'[ModelLabels] = 0]_vars

\* C5: when the upstream accepted the connection and did not respond in
\* time, the caller receives 504 or 500, errors `timeout` grows by 1 and
\* no other error type changes.
C5_Timeout ==
    [][\A r \in Reqs :
          /\ DispatchEnds(r)
          /\ up'[r].kind = "raise"
          /\ up'[r].exc = "ReadTimeout"
          =>
          /\ resp'[r].kind = "response"
          /\ resp'[r].status_code \in {504, 500}
          /\ Value(REQ_ERRORS', ErrorLabels("timeout"))
                = Value(REQ_ERRORS, ErrorLabels("timeout")) + 1
          /\ \A l \in DOMAIN REQ_ERRORS' \ {ErrorLabels("timeout")} :
                REQ_ERRORS'[l] = Value(REQ_ERRORS, l)]_vars

\* C6: when an upstream response with status code c is received,
\* total-requests str(c) grows by 1; the errors counter grows, by 1 and
\* under upstream_non_2xx, exactly when c is outside [200,300), and no
\* errors counter changes when c is inside.
C6_ResponseCounted ==
    [][\A r \in Reqs :
          DispatchEnds(r) /\ up'[r].kind = "response" =>
          /\ Value(REQ_TOTAL', TotalLabels(str(up'[r].status_code)))
                = Value(REQ_TOTAL, TotalLabels(str(up'[r].status_code))) + 1
          /\ IF 200 <= up'[r].status_code /\ up'[r].status_code < 300
             THEN REQ_ERRORS' = REQ_ERRORS
             ELSE /\ Value(REQ_ERRORS', ErrorLabels("upstream_non_2xx"))
                        = Value(REQ_ERRORS, ErrorLabels("upstream_non_2xx")) + 1
                  /\ Total(REQ_ERRORS') = Total(REQ_ERRORS) + 1]_vars

\* Request r succeeded: the upstream answered 2xx and the answer was
\* relayed.
Succeeded(r) ==
    /\ pc[r] = "Completed"
    /\ up[r].kind = "response"
    /\ up[r].status_code \in 200..299
    /\ resp[r].status_code = up[r].status_code

\* C7: once all NumReqs concurrent requests have completed, all of them
\* successfully, total-requests has grown by exactly NumReqs (from 0, no
\* update lost) and the in-progress gauge is 0.
C7_NoLostUpdates ==
    (\A r \in Reqs : Succeeded(r)) =>
        /\ Total(REQ_TOTAL) = NumReqs
        /\ SumOver(REQ_TOTAL, {l \in DOMAIN REQ_TOTAL : l[3] = "200"}) = NumReqs
        /\ Total(REQ_ERRORS) = 0
        /\ ModelLabels \in DOMAIN INPROGRESS
        /\ INPROGRESS[ModelLabels] = 0

\* C7 witness: every request has succeeded and been counted.
C7_Witness ==
    /\ \A r \in Reqs : Succeeded(r)
    /\ Total(REQ_TOTAL) = NumReqs

\* C8: no request serializes behind another: while one request waits for
\* its upstream dispatch to complete, a request whose body has arrived can
\* go on (read its body and be dispatched).
C8_NoSerialization ==
    \A r \in Reqs, s \in Reqs :
        r # s /\ pc[r] = "Dispatched" /\ pc[s] = "Received" =>
            ENABLED BodyRead(s)

\* C9: when the caller disconnects while the handler waits for the body
\* (after the gauge was incremented, before any upstream response), the
\* gauge is still decremented for that request: the step in which the
\* handler is left is its last, so the decrement has to be in it.
C9_DecrementOnDisconnect ==
    [][\A r \in Reqs :
          pc[r] = "Received" /\ pc'[r] = "Faulted" =>
              Value(INPROGRESS', ModelLabels)
                  = Value(INPROGRESS, ModelLabels) - 1]_vars

\* C10: every failure of the upstream dispatch is caught by the handler
\* and turned into one errors-counter increment and a synthesized
\* plain-text response with status 500, 502 or 504; none leaves the
\* handler as an unhandled fault.
C10_FailuresCaught ==
    [][\A r \in Reqs :
          DispatchEnds(r) /\ up'[r].kind = "raise" =>
          /\ pc'[r] = "Completed"
          /\ resp'[r].kind = "response"
          /\ resp'[r].status_code \in {500, 502, 504}
          /\ resp'[r].headers = ("content-type" :> "text/plain; charset=utf-8")
          /\ Total(REQ_ERRORS') = Total(REQ_ERRORS) + 1]_vars

\* C10 witness: requests have ended on each kind of upstream failure, each
\* with a synthesized response.
C10_Witness ==
    \E r \in Reqs, s \in Reqs :
        /\ pc[r] = "Completed" /\ up[r].kind = "raise"
        /\ up[r].exc = "RemoteProtocolError" /\ resp[r].status_code = 500
        /\ pc[s] = "Completed" /\ up[s].kind = "raise"
        /\ up[s].exc = "ConnectError" /\ resp[s].status_code = 502
        /\ Total(REQ_ERRORS) = 2

\* A connection to the upstream was established in a call that ended as
\* outcome: a response arrived, or the call failed after the connect phase.
Connected(outcome) ==
    \/ outcome.kind = "response"
    \/ outcome.kind = "raise"
       /\ outcome.exc \notin {"ConnectError", "ConnectTimeout"}

\* The upstream-up gauge child exists and holds v.
GaugeIs(gauge, v) == ModelLabels \in DOMAIN gauge /\ gauge[ModelLabels] = v

\* A /health probe runs in this step.
ProbeStep == <<hup, hresp>>' # <<hup, hresp>>

\* C11: a /health probe sets the upstream-up gauge to 1 and reports the
\* upstream reachable whenever a connection was established, whatever the
\* status code and whether or not a response then arrived in time; it sets
\* the gauge to 0 and reports the upstream unreachable exactly when no
\* connection could be established.
C11_ProbeReportsConnection ==
    [][ProbeStep =>
          IF Connected(hup')
          THEN GaugeIs(UPSTREAM_UP', 1) /\ hresp'.upstream = "reachable"
          ELSE GaugeIs(UPSTREAM_UP', 0) /\ hresp'.upstream = "unreachable"]_vars

\* C12: after any sequence of probes and forwards the upstream-up gauge
\* holds the outcome of the most recent one: each probe and each forward
\* that received an upstream response leaves it at 1 (also after an
\* earlier connect failure), each that was refused the connection at 0.
C12_GaugeFollowsLastCall ==
    [][/\ \A r \in Reqs :
             DispatchEnds(r) /\ up'[r].kind = "response" =>
                 GaugeIs(UPSTREAM_UP', 1)
       /\ \A r \in Reqs :
             DispatchEnds(r) /\ up'[r].kind = "raise"
                 /\ up'[r].exc = "ConnectError" => GaugeIs(UPSTREAM_UP', 0)
       /\ ProbeStep /\ hup'.kind = "response" => GaugeIs(UPSTREAM_UP', 1)
       /\ ProbeStep /\ hup'.kind = "raise" /\ hup'.exc = "ConnectError" =>
             GaugeIs(UPSTREAM_UP', 0)]_vars

\* C13: a GET /metrics requested while /invocations requests are in flight
\* completes without waiting for any of them to finish: whatever the
\* handlers are doing, the snapshot can be taken now.  (That it changes no
\* metric value and nothing of a request in flight is Metrics leaving
\* every variable unchanged.)
C13_ScrapeNeverWaits == ENABLED Metrics

\* What the upstream call of a forward can end as.
ForwardOutcomes ==
    [kind : {"response"}, status_code : UpstreamStatusCodes,
     content : UpstreamBodies, headers : UpstreamHeaders]
        \cup [kind : {"raise"}, exc : TransportErrors]

\* The handler's try statement does the same for outcome from registry a
\* as from registry b: the same response and the same counter and
\* histogram updates, and the same write of the upstream-up gauge if any.
SameHandling(a, b, outcome) ==
    \E x \in {Try(a, outcome, Elapsed(outcome))} :
    \E y \in {Try(b, outcome, Elapsed(outcome))} :
        /\ x.kind = y.kind
        /\ x.response = y.response
        /\ x.reg.REQ_TOTAL = y.reg.REQ_TOTAL
        /\ x.reg.REQ_ERRORS = y.reg.REQ_ERRORS
        /\ x.reg.REQ_LATENCY = y.reg.REQ_LATENCY
        /\ \/ x.reg.UPSTREAM_UP = y.reg.UPSTREAM_UP
           \/ x.reg.UPSTREAM_UP = a.UPSTREAM_UP
              /\ y.reg.UPSTREAM_UP = b.UPSTREAM_UP

\* C14: a /health probe, whether it succeeds or fails, changes only the
\* upstream-up gauge: it leaves the total and errors counters, the latency
\* and payload histograms and the in-progress gauge as they are, and what
\* a request in flight at that moment will answer and record is the same
\* after the probe as before it.
C14_ProbeTouchesOnlyGauge ==
    [][ProbeStep =>
          /\ UNCHANGED <<REQ_TOTAL, REQ_ERRORS, REQ_LATENCY, PAYLOAD_BYTES,
                         INPROGRESS>>
          /\ UNCHANGED <<pc, req, dispatched, up, resp, attempts>>
          /\ \A r \in Reqs :
                pc[r] = "Dispatched" /\ Registry' # Registry =>
                    \A o \in ForwardOutcomes :
                        SameHandling(Registry, Registry', o)]_vars

\* C14 witness: a probe has failed while one request is inside its
\* upstream call and another has been counted.
C14_Witness ==
    \E r \in Reqs, s \in Reqs :
        /\ pc[r] = "Dispatched" /\ pc[s] = "Completed"
        /\ Total(REQ_TOTAL) = 1
        /\ hup.kind = "raise" /\ hresp.status = "degraded"
        /\ GaugeIs(UPSTREAM_UP, 0)

\* C15: each inbound /invocations request results in at most one upstream
\* dispatch attempt on every path: none before the body is read, one from
\* then on, whatever the call ends as.
C15_AtMostOneDispatch ==
    \A r \in Reqs :
        /\ attempts[r] <= 1
        /\ pc[r] \in {"Idle", "Received"} => attempts[r] = 0
        /\ pc[r] = "Dispatched" => attempts[r] = 1

\* C15 witness: a request whose only dispatch was refused the connection
\* has been answered, and so has one whose dispatch timed out.
C15_Witness ==
    \E r \in Reqs, s \in Reqs :
        /\ pc[r] = "Completed" /\ up[r].kind = "raise"
        /\ up[r].exc = "ConnectError" /\ attempts[r] = 1
        /\ pc[s] = "Completed" /\ up[s].kind = "raise"
        /\ up[s].exc = "ReadTimeout" /\ attempts[s] = 1

\* The exposed buckets of every child of a histogram are non-decreasing
\* as the boundary increases, and its +Inf bucket holds observations.
WellFormed(metric, bounds, observations) ==
    \A l \in DOMAIN metric :
        /\ \A i \in 1..Len(bounds) :
              Cumulative(metric[l].buckets, i)
                  <= Cumulative(metric[l].buckets, i + 1)
        /\ Cumulative(metric[l].buckets, Len(bounds) + 1) = observations

\* C16: for the latency and the payload-size histogram, after any
\* sequence of observations, the bucket counts are non-decreasing as the
\* boundary increases and the +Inf bucket count equals the number of
\* observations made: one payload observation per body read, one latency
\* observation per total-requests increment.
C16_HistogramsWellFormed ==
    /\ WellFormed(PAYLOAD_BYTES, PAYLOAD_BUCKETS,
                  SumSeq([r \in Reqs |-> attempts[r]]))
    /\ WellFormed(REQ_LATENCY, LATENCY_BUCKETS, Total(REQ_TOTAL))

\* C16 witness: observations have fallen in different buckets of each
\* histogram, in the last (+Inf) one among them.
C16_Witness ==
    /\ ModelLabels \in DOMAIN PAYLOAD_BYTES
    /\ ModelLabels \in DOMAIN REQ_LATENCY
    /\ PAYLOAD_BYTES[ModelLabels].buckets[1] = 1
    /\ PAYLOAD_BYTES[ModelLabels].buckets[2] = 1
    /\ REQ_LATENCY[ModelLabels].buckets[1] = 1
    /\ REQ_LATENCY[ModelLabels].buckets[Len(LATENCY_BUCKETS) + 1] = 1

\* C17: the upstream dispatch carries exactly the request body bytes read
\* and, as Content-Type, the one the caller declared when it declared one,
\* else application/json; no other content type is dispatched.
C17_DispatchCarriesRequest ==
    \A r \in Reqs :
        pc[r] = "Dispatched" =>
            /\ dispatched[r].content = req[r].body
            /\ DOMAIN dispatched[r].headers = {"Content-Type"}
            /\ dispatched[r].headers["Content-Type"] =
                  IF "content-type" \in DOMAIN req[r].headers
                  THEN req[r].headers["content-type"]
                  ELSE "application/json"

\* C17 witness: a request that declares text/csv and has the long body is
\* being dispatched.
C17_Witness ==
    \E r \in Reqs :
        /\ pc[r] = "Dispatched"
        /\ req[r].headers = ("content-type" :> "text/csv")
        /\ Len(req[r].body) = 150
        /\ dispatched[r].headers["Content-Type"] = "text/csv"

\* No handler of either proxy is between its first statement and its
\* return.
Quiescent ==
    /\ \A r \in Reqs : pc[r] \in {"Idle", "Completed", "Faulted"}
    /\ \A r \in Reqs : ppc[r] \in {"Idle", "Completed"}

\* C18: in both proxy variants, for every request that increments the
\* total-requests counter, the status_code label equals the HTTP status
\* returned to the caller: once the handlers have returned, each child of
\* the counter holds the number of requests answered with its status.
C18_LabelIsReturnedStatus ==
    Quiescent =>
        /\ \A l \in DOMAIN HTTP_REQUESTS_TOTAL :
              HTTP_REQUESTS_TOTAL[l] =
                  Cardinality({r \in Reqs :
                      /\ ppc[r] = "Completed"
                      /\ PredictLabels(str(presp[r].status_code)) = l})
        /\ \A l \in DOMAIN REQ_TOTAL :
              REQ_TOTAL[l] =
                  Cardinality({r \in Reqs :
                      /\ pc[r] = "Completed"
                      /\ TotalLabels(str(resp[r].status_code)) = l})

\* C19: in every reachable state of the registry of either variant, under
\* any interleaving, the errors counter summed over its error types is at
\* most the total-requests counter summed over its status codes.
C19_ErrorsAtMostTotal ==
    /\ Total(HTTP_REQUEST_ERRORS_TOTAL) <= Total(HTTP_REQUESTS_TOTAL)
    /\ Total(REQ_ERRORS) <= Total(REQ_TOTAL)

=============================================================================
